---- MODULE Spec2Model ----
(***************************************************************************)
(* RAIL-Train: the AI adapter module (src/gemini.ts) and the view/state    *)
(* container that calls it (src/App.tsx).                                  *)
(*                                                                         *)
(* An adapter invocation is two steps: the synchronous part up to the      *)
(* await of the external model call (cache lookup, early returns), and the *)
(* part after the await (parse, cache write, catch).  An invocation that   *)
(* returns before the await is one step.  The external model is the        *)
(* environment: its answer is chosen when the awaited call settles.        *)
(***************************************************************************)
EXTENDS Integers, Sequences, FiniteSets, TLC

VARIABLES
    cache,      \* gemini.ts `cache`: five Maps, key -> stored value
    calls,      \* adapter invocations suspended at their await: id -> record
    nInv,       \* number of adapter invocations started so far
    last,       \* history: the invocation that returned most recently
    okResults,  \* history: per adapter, args -> results of its successful invocations
    fetchedBy,  \* history: per cache, key -> the arguments of each write to that entry
    \* App.tsx: the state hooks of the lookup views
    view, isLoading,
    searchFrom, searchTo, trainResults,
    liveSearchInput, selectedTrain, liveStatus,
    scheduleInput, scheduleData,
    coachInput, coachData,
    alerts,
    storedAlerts, \* localStorage item 'voyager_alerts_cache'
    liveStatusFor, \* history: the train number liveStatus was fetched for
    \* App.tsx: the PNR view
    pnrInput, pnrData,
    pnrTimers,  \* pending setTimeout callbacks of handlePnrCheck: id -> closure
    nPnr,       \* number of handlePnrCheck timers started so far
    \* App.tsx: the theme
    theme,
    storedTheme, \* localStorage item 'theme'
    darkClass,  \* whether document.documentElement carries the class 'dark'
    themeLog,   \* history: the theme at mount and after each toggleTheme
    \* App.tsx: the station suggestions of the home form
    showFromSuggestions, showToSuggestions, fromSuggestions, toSuggestions,
    fromTimers, toTimers, \* pending setTimeout callbacks of the debounce effects
    nEdits,     \* per field, the number of runs of its debounce effect after the mount
    requested,  \* history: the debounce callback that last asked for suggestions
    \* App.tsx: the state hooks of the assistant panel
    botInput, isBotTyping, chatMessages,
    streams,    \* getRailAssistantResponseStream invocations in progress: id -> record
    nSend,      \* number of handleSendMessage invocations so far
    streamLast  \* history: the stream invocation that returned most recently

gvars == <<cache, calls, nInv, last, okResults, fetchedBy>>

avars == <<view, isLoading, searchFrom, searchTo, trainResults, liveSearchInput,
           selectedTrain, liveStatus, scheduleInput, scheduleData, coachInput,
           coachData, alerts, storedAlerts, liveStatusFor>>

pvars == <<pnrInput, pnrData, pnrTimers, nPnr>>

tvars == <<theme, storedTheme, darkClass, themeLog>>

svars == <<showFromSuggestions, showToSuggestions, fromSuggestions, toSuggestions,
           fromTimers, toTimers, nEdits, requested>>

\* the state of the views that the lookup handlers and the assistant leave alone
xvars == <<pvars, tvars, svars>>

cvars == <<botInput, isBotTyping, chatMessages, streams, nSend, streamLast>>

vars == <<gvars, avars, cvars, xvars>>

----------------------------------------------------------------------------
(* Bounds *)

\* adapter invocations started in one behaviour
MaxInv == 2

\* handleSendMessage invocations in one behaviour
MaxSend == 2

\* chunks the external model streams in answer to one message
MaxChunks == 2

\* toggleTheme invocations in one behaviour
MaxToggle == 2

\* handlePnrCheck invocations in one behaviour
MaxPnr == 2

\* runs of the two debounce effects after the mount in one behaviour
MaxEdits == 3

----------------------------------------------------------------------------
(* Strings are sequences of one-character strings, so that toLowerCase,    *)
(* length and concatenation are computed and not assumed.                  *)

LowerChar(c) ==
    CASE c = "A" -> "a"
      [] c = "D" -> "d"
      [] c = "E" -> "e"
      [] OTHER -> c

toLowerCase(s) == [i \in DOMAIN s |-> LowerChar(s[i])]

\* station names typed into the search form
stLower == <<"a">>
stUpper == <<"A">>
stTrailingDash == <<"a", "-">>
stLeadingDash == <<"-", "a">>

\* <<from, to>> pairs given to searchTrainsAI
SearchQueries ==
    { <<stLower, stLower>>, <<stUpper, stLower>>,
      <<stTrailingDash, stLower>>, <<stLower, stLeadingDash>> }

\* queries given to getStationSuggestionsAI
SuggestionQueries == { <<"d">>, <<"d", "e">>, <<"D", "e">> }

\* train numbers given to getLiveStatusAI, getTrainScheduleAI, getCoachPositionAI
TrainNumbers == { <<"1", "2", "0", "0", "2">>, <<"1", "2", "4", "2", "3">> }

----------------------------------------------------------------------------
(* JavaScript values and the external model's answers *)

JsNull == [type |-> "null", n |-> 0]
JsArray(k) == [type |-> "array", n |-> k]
JsObject == [type |-> "object", n |-> 1]

\* JavaScript truthiness of the values above: null is falsy, every array
\* (also the empty one) and every object is truthy
Truthy(v) == v.type # "null"

\* texts the model may answer with: none, not JSON, and three JSON documents
ResponseTexts == { "", "oops", "null", "[1]", "{1}" }

\* the awaited generateContent call either throws or resolves with a text
Responses ==
    { [threw |-> TRUE, text |-> ""] } \cup
    { [threw |-> FALSE, text |-> t] : t \in ResponseTexts }

\* JSON.parse: the value of a JSON document, or a SyntaxError
JSONparse(t) ==
    CASE t = "null" -> [ok |-> TRUE, value |-> JsNull]
      [] t = "[]" -> [ok |-> TRUE, value |-> JsArray(0)]
      [] t = "[1]" -> [ok |-> TRUE, value |-> JsArray(1)]
      [] t = "[1,2]" -> [ok |-> TRUE, value |-> JsArray(2)]
      [] t = "{1}" -> [ok |-> TRUE, value |-> JsObject]
      [] OTHER -> [ok |-> FALSE, value |-> JsNull]

\* `text || fallback`: the empty (or missing) text is falsy
OrText(text, fallback) == IF text = "" THEN fallback ELSE text

----------------------------------------------------------------------------
(* App.tsx: values of the state hooks *)

\* selectedTrain: null, or a train (of which the lookups read the number)
NoTrain == [number |-> << >>]
Train(n) == [number |-> n]

\* localStorage.getItem of a key that was never set
NoItem == "none"

\* the trains listed by a search result: the one-element array "[1]" holds
\* train 12002, the other values hold none
TrainsIn(v) ==
    IF v = JsArray(1) THEN { Train(<<"1", "2", "0", "0", "2">>) } ELSE {}

\* `data && data.length > 0`
MutAnyValue(v) == Truthy(v)

NonEmptyList(v) == Truthy(v) /\ v.type = "array" /\ v.n > 0

\* JSON.stringify of the values of this model
MutStringifyAsEmpty(v) == "[]"

JSONstringify(v) ==
    CASE v = JsNull -> "null"
      [] v = JsArray(0) -> "[]"
      [] v = JsArray(1) -> "[1]"
      [] v = JsArray(2) -> "[1,2]"
      [] v = JsObject -> "{1}"

----------------------------------------------------------------------------
(* Maps *)

EmptyMap == << >>
MapHas(m, k) == k \in DOMAIN m
MapGet(m, k) == m[k]
MapSet(m, k, v) == [x \in DOMAIN m \cup {k} |-> IF x = k THEN v ELSE m[x]]

----------------------------------------------------------------------------
(* gemini.ts: what is common to the adapters *)

Adapters == { "search", "status", "suggestions", "schedules", "coaches", "alerts" }
KeyedAdapters == Adapters \ { "alerts" }

NoResponse == [threw |-> FALSE, text |-> "none"]

\* the record of an invocation that has returned
Returned(fn, args, caller, hit, ext, resp, out, present, after, servedFor) ==
    [ fn |-> fn, args |-> args, caller |-> caller, hit |-> hit, ext |-> ext,
      resp |-> resp, ret |-> out.ret, rejected |-> out.rejected,
      wrote |-> out.store, present |-> present, after |-> after,
      servedFor |-> servedFor ]

NoCall ==
    Returned("none", << >>, "none", FALSE, 0, NoResponse,
             [ret |-> JsNull, store |-> FALSE, rejected |-> FALSE], FALSE, {}, {})

\* whether the adapter's cache holds an entry under key (there is no cache
\* for alerts)
Present(fn, key) == fn \in DOMAIN cache /\ MapHas(cache[fn], key)

\* results of the invocations of fn with exactly these arguments that have
\* completed successfully so far
OkResultsOf(fn, args) ==
    IF MapHas(okResults[fn], args) THEN okResults[fn][args] ELSE {}

\* an invocation completed successfully when it returned a value and its
\* external call, if it made one, neither threw nor answered with bad JSON
Successful(r) ==
    /\ ~r.rejected
    /\ ~r.resp.threw
    /\ (r.ext > 0 => JSONparse(r.resp.text).ok \/ r.resp.text = "")

Remember(r) ==
    okResults' =
        IF Successful(r)
        THEN [okResults EXCEPT ![r.fn] =
                 MapSet(@, r.args, OkResultsOf(r.fn, r.args) \cup {r.ret})]
        ELSE okResults

\* the arguments of the invocation that fetched the value now stored under key
FetchedFor(fn, key) ==
    IF MapHas(fetchedBy[fn], key)
    THEN { fetchedBy[fn][key][Len(fetchedBy[fn][key])] }
    ELSE {}

\* an invocation returns before reaching an await: `return v`
ReturnSync(fn, args, key, caller, hit, v) ==
    LET r == Returned(fn, args, caller, hit, 0, NoResponse,
                      [ret |-> v, store |-> FALSE, rejected |-> FALSE],
                      Present(fn, key), OkResultsOf(fn, args),
                      IF hit THEN FetchedFor(fn, key) ELSE {})
    IN  /\ nInv < MaxInv
        /\ nInv' = nInv + 1
        /\ last' = r
        /\ Remember(r)
        /\ UNCHANGED <<cache, calls, fetchedBy>>

\* `await ai.models.generateContent(...)`: one external call is issued and the
\* invocation is suspended until it settles
AwaitGenerateContent(fn, args, key, caller) ==
    /\ nInv < MaxInv
    /\ nInv' = nInv + 1
    /\ calls' = MapSet(calls, nInv + 1,
                       [ fn |-> fn, args |-> args, key |-> key, caller |-> caller,
                         ext |-> 1, present |-> Present(fn, key),
                         after |-> OkResultsOf(fn, args) ])
    /\ UNCHANGED <<cache, last, okResults, fetchedBy>>

\* the body of `try { ...; JSON.parse(response.text || fallback) ... }
\* catch (error) { return dflt }`: what is returned and whether the cache
\* write after the parse is reached
MutTryParseNoCatch(resp, fallback, dflt) ==
    IF resp.threw
    THEN [ret |-> dflt, store |-> FALSE, rejected |-> TRUE]
    ELSE LET p == JSONparse(OrText(resp.text, fallback))
         IN  IF p.ok
             THEN [ret |-> p.value, store |-> TRUE, rejected |-> FALSE]
             ELSE [ret |-> dflt, store |-> FALSE, rejected |-> TRUE]

MutTryParseStoreDefault(resp, fallback, dflt) ==
    IF resp.threw
    THEN [ret |-> dflt, store |-> TRUE, rejected |-> FALSE]
    ELSE LET p == JSONparse(OrText(resp.text, fallback))
         IN  IF p.ok
             THEN [ret |-> p.value, store |-> TRUE, rejected |-> FALSE]
             ELSE [ret |-> dflt, store |-> TRUE, rejected |-> FALSE]

TryParse(resp, fallback, dflt) ==
    IF resp.threw
    THEN [ret |-> dflt, store |-> FALSE, rejected |-> FALSE]
    ELSE LET p == JSONparse(OrText(resp.text, fallback))
         IN  IF p.ok
             THEN [ret |-> p.value, store |-> TRUE, rejected |-> FALSE]
             ELSE [ret |-> dflt, store |-> FALSE, rejected |-> FALSE]

\* `cache.X.set(key, value)`
MutCacheSetEvicting(fn, key, v) == [cache EXCEPT ![fn] = (key :> v)]

CacheSet(fn, key, v) == [cache EXCEPT ![fn] = MapSet(@, key, v)]

\* the invocation suspended as calls[id] resumes with the external call's
\* outcome; `out` is what its try/catch yields
Resume(id, resp, out) ==
    LET c == calls[id]
        r == Returned(c.fn, c.args, c.caller, FALSE, c.ext, resp, out,
                      c.present, c.after, {})
    IN  /\ calls' = [i \in DOMAIN calls \ {id} |-> calls[i]]
        /\ cache' = IF out.store THEN CacheSet(c.fn, c.key, out.ret) ELSE cache
        /\ fetchedBy' =
               IF out.store
               THEN [fetchedBy EXCEPT ![c.fn] =
                        MapSet(@, c.key,
                               IF MapHas(@, c.key) THEN Append(@[c.key], c.args)
                               ELSE <<c.args>>)]
               ELSE fetchedBy
        /\ last' = r
        /\ Remember(r)
        /\ UNCHANGED nInv

Suspended(fn) == { id \in DOMAIN calls : calls[id].fn = fn }

----------------------------------------------------------------------------
(* The state after the module is loaded and App is mounted with nothing in *)
(* localStorage.                                                           *)

\* literals of the assistant
Welcome == <<"Welcome to your premium travel suite. I am your Rail Concierge. How may I assist your voyage today?">>
Apology == <<"I'm having trouble connecting right now. Please try again!">>
ErrorText == <<"Error">>

\* no stream invocation has returned yet
NoStream ==
    [ query |-> << >>, threw |-> FALSE, ret |-> << >>, rejected |-> FALSE,
      returned |-> FALSE, chunks |-> << >>, onChunkArgs |-> << >> ]

\* the alerts initialiser: `cached ? JSON.parse(cached) : []`, where cached is
\* localStorage item 'voyager_alerts_cache'
InitAlertsFrom(stored) ==
    /\ storedAlerts = stored
    /\ alerts = IF stored = NoItem THEN JsArray(0) ELSE JSONparse(stored).value

InitViews ==
    /\ view = "home"
    /\ isLoading = FALSE
    /\ searchFrom = << >>
    /\ searchTo = << >>
    /\ trainResults = JsArray(0)
    /\ liveSearchInput = << >>
    /\ selectedTrain = NoTrain
    /\ liveStatus = JsNull
    /\ scheduleInput = << >>
    /\ scheduleData = JsNull
    /\ coachInput = << >>
    /\ coachData = JsNull
    /\ liveStatusFor = << >>

InitApp == InitViews /\ InitAlertsFrom(NoItem)

\* pnrInput and pnrData as initialised by useState; no timer has been started
InitPnr ==
    /\ pnrInput = << >>
    /\ pnrData = JsNull
    /\ pnrTimers = EmptyMap
    /\ nPnr = 0

\* the theme initialiser reads localStorage item 'theme' (`stored || 'light'`),
\* and the theme effect has run once after the mount
InitThemeFrom(stored) ==
    LET t == IF stored = NoItem THEN "light" ELSE stored
    IN  /\ theme = t
        /\ storedTheme = t
        /\ darkClass = (t = "dark")
        /\ themeLog = <<t>>

InitTheme == InitThemeFrom(NoItem)

\* the closure of a debounce callback: the field's text and the open flag of
\* the render that set the timer (edit: the value of nEdits at that render)
Timer(text, show, edit) == [text |-> text, show |-> show, edit |-> edit]
NoRequest == [field |-> "none", query |-> << >>, timer |-> Timer(<< >>, FALSE, 0),
              text |-> << >>, show |-> FALSE, edits |-> 0]

\* both suggestion lists closed and empty; each debounce effect has run once
\* after the mount and set its first timer
InitSuggest ==
    /\ showFromSuggestions = FALSE
    /\ showToSuggestions = FALSE
    /\ fromSuggestions = JsArray(0)
    /\ toSuggestions = JsArray(0)
    /\ fromTimers = { Timer(<< >>, FALSE, 0) }
    /\ toTimers = { Timer(<< >>, FALSE, 0) }
    /\ nEdits = [from |-> 0, to |-> 0]
    /\ requested = NoRequest

InitGemini ==
    /\ cache = [fn \in KeyedAdapters |-> EmptyMap]
    /\ calls = EmptyMap
    /\ nInv = 0
    /\ last = NoCall
    /\ okResults = [fn \in Adapters |-> EmptyMap]
    /\ fetchedBy = [fn \in KeyedAdapters |-> EmptyMap]

InitChat ==
    /\ botInput = << >>
    /\ isBotTyping = FALSE
    /\ chatMessages = << [role |-> "bot", text |-> Welcome] >>
    /\ streams = EmptyMap
    /\ nSend = 0
    /\ streamLast = NoStream

Init == InitGemini /\ InitApp /\ InitChat /\ InitPnr /\ InitTheme /\ InitSuggest

----------------------------------------------------------------------------
(* gemini.ts: the adapters.  Each takes the tag of its caller, which is    *)
(* resumed with the returned value.                                        *)

\* `${from.toLowerCase()}-${to.toLowerCase()}`
SearchCacheKey(from, to) == toLowerCase(from) \o <<"-">> \o toLowerCase(to)

\* `query.toLowerCase()`
SuggestionsCacheKey(query) == toLowerCase(query)

\* `v || []`
OrEmptyArray(v) == IF Truthy(v) THEN v ELSE JsArray(0)

\* `if (cache.X.has(key)) return cache.X.get(key)`, else the external call
MutLookupAlwaysFetch(fn, args, key, caller) ==
    AwaitGenerateContent(fn, args, key, caller)

MutLookupIfTruthy(fn, args, key, caller) ==
    IF MapHas(cache[fn], key) /\ Truthy(MapGet(cache[fn], key))
    THEN ReturnSync(fn, args, key, caller, TRUE, MapGet(cache[fn], key))
    ELSE AwaitGenerateContent(fn, args, key, caller)

LookupOrFetch(fn, args, key, caller) ==
    IF MapHas(cache[fn], key)
    THEN ReturnSync(fn, args, key, caller, TRUE, MapGet(cache[fn], key))
    ELSE AwaitGenerateContent(fn, args, key, caller)

searchTrainsAI(from, to, caller) ==
    LookupOrFetch("search", <<from, to>>, SearchCacheKey(from, to), caller)

searchTrainsAI_resume(id, resp) ==
    /\ calls[id].fn = "search"
    /\ Resume(id, resp, TryParse(resp, "[]", JsArray(0)))

getLiveStatusAI(trainNumber, caller) ==
    LookupOrFetch("status", <<trainNumber>>, trainNumber, caller)

getLiveStatusAI_resume(id, resp) ==
    /\ calls[id].fn = "status"
    /\ Resume(id, resp, TryParse(resp, "null", JsNull))

getStationSuggestionsAI(query, caller) ==
    LET cacheKey == SuggestionsCacheKey(query)
    IN  IF Len(query) < 2
        THEN ReturnSync("suggestions", <<query>>, cacheKey, caller, FALSE, JsArray(0))
        ELSE IF MapHas(cache.suggestions, cacheKey)
        THEN ReturnSync("suggestions", <<query>>, cacheKey, caller, TRUE,
                        OrEmptyArray(MapGet(cache.suggestions, cacheKey)))
        ELSE AwaitGenerateContent("suggestions", <<query>>, cacheKey, caller)

getStationSuggestionsAI_resume(id, resp) ==
    /\ calls[id].fn = "suggestions"
    /\ Resume(id, resp, TryParse(resp, "[]", JsArray(0)))

getTrainScheduleAI(trainNumber, caller) ==
    LookupOrFetch("schedules", <<trainNumber>>, trainNumber, caller)

getTrainScheduleAI_resume(id, resp) ==
    /\ calls[id].fn = "schedules"
    /\ Resume(id, resp, TryParse(resp, "null", JsNull))

getCoachPositionAI(trainNumber, caller) ==
    LookupOrFetch("coaches", <<trainNumber>>, trainNumber, caller)

getCoachPositionAI_resume(id, resp) ==
    /\ calls[id].fn = "coaches"
    /\ Resume(id, resp, TryParse(resp, "null", JsNull))

\* getRecentAlertsAI has no cache lookup and no cache write
MutGetRecentAlertsMemoized(caller) ==
    IF OkResultsOf("alerts", << >>) # {}
    THEN ReturnSync("alerts", << >>, << >>, caller, FALSE,
                    CHOOSE r \in OkResultsOf("alerts", << >>) : TRUE)
    ELSE AwaitGenerateContent("alerts", << >>, << >>, caller)

getRecentAlertsAI(caller) ==
    AwaitGenerateContent("alerts", << >>, << >>, caller)

getRecentAlertsAI_resume(id, resp) ==
    /\ calls[id].fn = "alerts"
    /\ Resume(id, resp, [TryParse(resp, "[]", JsArray(0)) EXCEPT !.store = FALSE])

----------------------------------------------------------------------------
(* Spec: the adapter module under any caller of its exported functions.    *)

SearchTrains ==
    /\ \E q \in SearchQueries : searchTrainsAI(q[1], q[2], "caller")
    /\ UNCHANGED <<avars, cvars, xvars>>
SearchTrainsSettles ==
    /\ \E id \in Suspended("search"), resp \in Responses : searchTrainsAI_resume(id, resp)
    /\ UNCHANGED <<avars, cvars, xvars>>

LiveStatus ==
    /\ \E t \in TrainNumbers : getLiveStatusAI(t, "caller")
    /\ UNCHANGED <<avars, cvars, xvars>>
LiveStatusSettles ==
    /\ \E id \in Suspended("status"), resp \in Responses : getLiveStatusAI_resume(id, resp)
    /\ UNCHANGED <<avars, cvars, xvars>>

StationSuggestions ==
    /\ \E q \in SuggestionQueries : getStationSuggestionsAI(q, "caller")
    /\ UNCHANGED <<avars, cvars, xvars>>
StationSuggestionsSettles ==
    /\ \E id \in Suspended("suggestions"), resp \in Responses :
           getStationSuggestionsAI_resume(id, resp)
    /\ UNCHANGED <<avars, cvars, xvars>>

TrainSchedule ==
    /\ \E t \in TrainNumbers : getTrainScheduleAI(t, "caller")
    /\ UNCHANGED <<avars, cvars, xvars>>
TrainScheduleSettles ==
    /\ \E id \in Suspended("schedules"), resp \in Responses :
           getTrainScheduleAI_resume(id, resp)
    /\ UNCHANGED <<avars, cvars, xvars>>

CoachPosition ==
    /\ \E t \in TrainNumbers : getCoachPositionAI(t, "caller")
    /\ UNCHANGED <<avars, cvars, xvars>>
CoachPositionSettles ==
    /\ \E id \in Suspended("coaches"), resp \in Responses :
           getCoachPositionAI_resume(id, resp)
    /\ UNCHANGED <<avars, cvars, xvars>>

RecentAlerts ==
    /\ getRecentAlertsAI("caller")
    /\ UNCHANGED <<avars, cvars, xvars>>
RecentAlertsSettles ==
    /\ \E id \in Suspended("alerts"), resp \in Responses : getRecentAlertsAI_resume(id, resp)
    /\ UNCHANGED <<avars, cvars, xvars>>

Next ==
    \/ SearchTrains \/ SearchTrainsSettles
    \/ LiveStatus \/ LiveStatusSettles
    \/ StationSuggestions \/ StationSuggestionsSettles
    \/ TrainSchedule \/ TrainScheduleSettles
    \/ CoachPosition \/ CoachPositionSettles
    \/ RecentAlerts \/ RecentAlertsSettles

Spec == Init /\ [][Next]_vars

----------------------------------------------------------------------------
(* App.tsx: the lookup views.  A handler runs up to its await in one step; *)
(* when the adapter returns without awaiting, the rest of the handler runs *)
(* in the same step (no event is handled in between).                      *)
(*                                                                         *)
(* The onChange handlers of the form fields only store the typed text      *)
(* (setSearchFrom, setLiveSearchInput, ...), and nothing but the submit    *)
(* handler of the same form reads it.  A submit step therefore takes the    *)
(* text typed since the last submit as its input: the field holds that     *)
(* text when the handler runs.  A submit of a blank field returns at once  *)
(* (`if (!input) return`) and is no step.                                  *)

\* text typed into the fields of the lookup forms
FromInputs == { << >>, stLower, stUpper }
ToInputs == { << >>, stLower }
TrainInputs == { << >> } \cup TrainNumbers

\* `if (!input) return`: the empty string is falsy
Blank(input) == input = << >>

\* the value the adapter invocation made in this step returned, when it
\* returned without awaiting
ReturnedNow == nInv' = nInv + 1 /\ calls' = calls

\* the alerts effect: `if (view === 'alerts') { setIsLoading(true);
\* getRecentAlertsAI().then(...) }`, run when view changes
AlertsEffect(newView) ==
    IF newView = "alerts"
    THEN /\ getRecentAlertsAI("alertsEffect")
         /\ isLoading' = TRUE
    ELSE UNCHANGED <<gvars, isLoading>>

\* the views a click can switch to: the header and the bottom bar are always
\* shown, the home view has one tile per tool, the live view goes back to the
\* live search, every other view back to home
SetViewTargets ==
    { "home", "pnr", "schedule", "alerts" } \cup
    (IF view = "home" THEN { "live-search", "coaches" } ELSE {}) \cup
    (IF view = "live" /\ selectedTrain # NoTrain THEN { "live-search" } ELSE {})

setView ==
    \E v \in SetViewTargets \ { view } :
        /\ view' = v
        /\ AlertsEffect(v)
        /\ UNCHANGED <<searchFrom, searchTo, trainResults, liveSearchInput,
                       selectedTrain, liveStatus, scheduleInput, scheduleData,
                       coachInput, coachData, alerts, storedAlerts,
                       liveStatusFor, cvars, xvars>>

\* the submit button of the home form is disabled while isLoading
handleSearch ==
    /\ view = "home"
    /\ ~isLoading
    /\ \E from \in FromInputs, to \in ToInputs :
        /\ searchFrom' = from
        /\ searchTo' = to
        /\ ~(Blank(from) \/ Blank(to))
        /\ view' = "search"
        /\ searchTrainsAI(from, to, "handleSearch")
        /\ IF ReturnedNow
           THEN trainResults' = last'.ret /\ isLoading' = FALSE
           ELSE trainResults' = trainResults /\ isLoading' = TRUE
    /\ UNCHANGED <<liveSearchInput, selectedTrain, liveStatus,
                   scheduleInput, scheduleData, coachInput, coachData, alerts,
                   storedAlerts, liveStatusFor, cvars, xvars>>

\* the submit button of the live-search form carries no disabled attribute
handleLiveSearch ==
    /\ view = "live-search"
    /\ \E input \in TrainInputs :
        /\ liveSearchInput' = input
        /\ ~Blank(input)
        /\ selectedTrain' = Train(input)
        /\ view' = "live"
        /\ getLiveStatusAI(input, "handleLiveSearch")
        /\ IF ReturnedNow
           THEN liveStatus' = last'.ret /\ isLoading' = FALSE
                /\ liveStatusFor' = input
           ELSE liveStatus' = JsNull /\ isLoading' = TRUE
                /\ liveStatusFor' = << >>
    /\ UNCHANGED <<searchFrom, searchTo, trainResults,
                   scheduleInput, scheduleData, coachInput, coachData, alerts,
                   storedAlerts, cvars, xvars>>

\* the result cards are rendered in the search view when isLoading is false
handleTrainClick ==
    /\ view = "search"
    /\ ~isLoading
    /\ \E train \in TrainsIn(trainResults) :
        /\ selectedTrain' = train
        /\ view' = "live"
        /\ getLiveStatusAI(train.number, "handleTrainClick")
        /\ IF ReturnedNow
           THEN liveStatus' = last'.ret /\ isLoading' = FALSE
                /\ liveStatusFor' = train.number
           ELSE liveStatus' = JsNull /\ isLoading' = TRUE
                /\ liveStatusFor' = << >>
    /\ UNCHANGED <<searchFrom, searchTo, trainResults, liveSearchInput,
                   scheduleInput, scheduleData, coachInput, coachData, alerts,
                   storedAlerts, cvars, xvars>>

handleScheduleSearch ==
    /\ view = "schedule"
    /\ ~isLoading
    /\ \E input \in TrainInputs :
        /\ scheduleInput' = input
        /\ ~Blank(input)
        /\ getTrainScheduleAI(input, "handleScheduleSearch")
        /\ IF ReturnedNow
           THEN scheduleData' = last'.ret /\ isLoading' = FALSE
           ELSE scheduleData' = scheduleData /\ isLoading' = TRUE
    /\ UNCHANGED <<view, searchFrom, searchTo, trainResults, liveSearchInput,
                   selectedTrain, liveStatus, coachInput, coachData,
                   alerts, storedAlerts, liveStatusFor, cvars, xvars>>

handleCoachSearch ==
    /\ view = "coaches"
    /\ ~isLoading
    /\ \E input \in TrainInputs :
        /\ coachInput' = input
        /\ ~Blank(input)
        /\ getCoachPositionAI(input, "handleCoachSearch")
        /\ IF ReturnedNow
           THEN coachData' = last'.ret /\ isLoading' = FALSE
           ELSE coachData' = coachData /\ isLoading' = TRUE
    /\ UNCHANGED <<view, searchFrom, searchTo, trainResults, liveSearchInput,
                   selectedTrain, liveStatus, scheduleInput, scheduleData,
                   alerts, storedAlerts, liveStatusFor, cvars, xvars>>

\* the rest of the handler (or the .then callback) that awaited the adapter.
\* The handlers have no try/catch: had the adapter's promise been rejected,
\* the statements after the await would be skipped; the alerts effect has a
\* .catch that calls setIsLoading(false).
Continue(caller, ret) ==
    LET fulfilled == ~last'.rejected
        from(callers) == fulfilled /\ caller \in callers
    IN  /\ isLoading' = IF fulfilled \/ caller = "alertsEffect" THEN FALSE
                        ELSE isLoading
        /\ trainResults' = IF from({ "handleSearch" }) THEN ret ELSE trainResults
        /\ liveStatus' = IF from({ "handleLiveSearch", "handleTrainClick" })
                         THEN ret ELSE liveStatus
        /\ liveStatusFor' = IF from({ "handleLiveSearch", "handleTrainClick" })
                            THEN last'.args[1] ELSE liveStatusFor
        /\ scheduleData' = IF from({ "handleScheduleSearch" }) THEN ret
                           ELSE scheduleData
        /\ coachData' = IF from({ "handleCoachSearch" }) THEN ret ELSE coachData
        /\ alerts' = IF from({ "alertsEffect" }) /\ NonEmptyList(ret) THEN ret
                     ELSE alerts
        /\ storedAlerts' = IF from({ "alertsEffect" }) /\ NonEmptyList(ret)
                           THEN JSONstringify(ret) ELSE storedAlerts
        /\ UNCHANGED <<view, searchFrom, searchTo, liveSearchInput, selectedTrain,
                       scheduleInput, coachInput, cvars, xvars>>

searchSettles ==
    \E id \in Suspended("search"), resp \in Responses :
        /\ searchTrainsAI_resume(id, resp)
        /\ Continue(calls[id].caller, last'.ret)

statusSettles ==
    \E id \in Suspended("status"), resp \in Responses :
        /\ getLiveStatusAI_resume(id, resp)
        /\ Continue(calls[id].caller, last'.ret)

scheduleSettles ==
    \E id \in Suspended("schedules"), resp \in Responses :
        /\ getTrainScheduleAI_resume(id, resp)
        /\ Continue(calls[id].caller, last'.ret)

coachSettles ==
    \E id \in Suspended("coaches"), resp \in Responses :
        /\ getCoachPositionAI_resume(id, resp)
        /\ Continue(calls[id].caller, last'.ret)

alertsSettles ==
    \E id \in Suspended("alerts"), resp \in Responses :
        /\ getRecentAlertsAI_resume(id, resp)
        /\ Continue(calls[id].caller, last'.ret)

NextApp ==
    \/ setView
    \/ handleSearch \/ handleLiveSearch \/ handleTrainClick
    \/ handleScheduleSearch \/ handleCoachSearch
    \/ searchSettles \/ statusSettles \/ scheduleSettles \/ coachSettles
    \/ alertsSettles

SpecApp == Init /\ [][NextApp]_vars

\* the external calls still outstanding that a lookup handler started
LookupCallers ==
    { "handleSearch", "handleLiveSearch", "handleTrainClick",
      "handleScheduleSearch", "handleCoachSearch" }
OutstandingLookups == { id \in DOMAIN calls : calls[id].caller \in LookupCallers }

\* C7: while the external call started by a lookup action (handleSearch,
\* handleLiveSearch, handleTrainClick, handleScheduleSearch, handleCoachSearch)
\* is pending, no further lookup action starts a second, concurrent call.
C7_OneOutstandingLookup == Cardinality(OutstandingLookups) <= 1

----------------------------------------------------------------------------
(* App.tsx: the state that lives in the browser only: the alerts persisted *)
(* in localStorage, the theme, and the PNR view, whose lookup is a timer   *)
(* and no adapter call.  SpecLocal starts from what an earlier session     *)
(* left in localStorage.                                                   *)

\* what localStorage can hold under 'voyager_alerts_cache' and 'theme': nothing,
\* or a value that the app wrote in an earlier session
StoredAlertsItems == { NoItem, "[1]", "[1,2]" }
StoredThemes == { NoItem, "light", "dark" }

InitLocal ==
    /\ InitGemini /\ InitViews /\ InitChat /\ InitPnr /\ InitSuggest
    /\ \E stored \in StoredAlertsItems : InitAlertsFrom(stored)
    /\ \E stored \in StoredThemes : InitThemeFrom(stored)

\* `prev => prev === 'light' ? 'dark' : 'light'`
MutToggleToDark(prev) == "dark"

Toggled(prev) == IF prev = "light" THEN "dark" ELSE "light"

\* toggleTheme, and the theme effect that runs after the render it causes:
\* classList.add('dark') or classList.remove('dark'), then
\* localStorage.setItem('theme', theme)
toggleTheme ==
    /\ Len(themeLog) <= MaxToggle
    /\ theme' = Toggled(theme)
    /\ darkClass' = (theme' = "dark")
    /\ storedTheme' = theme'
    /\ themeLog' = Append(themeLog, theme')
    /\ UNCHANGED <<gvars, avars, cvars, pvars, svars>>

\* a string of n characters c
Rep(n, c) == [i \in 1..n |-> c]

\* `e.target.value.replace(/\D/g, '')`
DigitChars == { "0", "1", "2", "3", "4", "5", "6", "7", "8", "9" }
IsDigit(c) == c \in DigitChars
OnlyDigits(text) == SelectSeq(text, IsDigit)

\* what the user makes the PNR field hold (maxLength is 10)
PnrTexts ==
    { Rep(9, "7"), Rep(9, "7") \o <<"x">>, Rep(10, "7"), Rep(10, "8") }

setPnrInput ==
    /\ view = "pnr"
    /\ \E text \in PnrTexts :
        /\ pnrInput' = OnlyDigits(text)
        /\ pnrInput' # pnrInput
    /\ UNCHANGED <<gvars, avars, cvars, pnrData, pnrTimers, nPnr, tvars, svars>>

\* the record that the timer callback of handlePnrCheck builds
PnrInfo(pnr) == [type |-> "object", n |-> 1, pnr |-> pnr]

\* the submit button of the PNR form is disabled while isLoading
handlePnrCheck ==
    /\ view = "pnr"
    /\ ~isLoading
    /\ nPnr < MaxPnr
    /\ nPnr' = nPnr + 1
    /\ IF Len(pnrInput) < 10
       THEN UNCHANGED <<isLoading, pnrData, pnrTimers>>
       ELSE /\ isLoading' = TRUE
            /\ pnrData' = JsNull
            /\ pnrTimers' = MapSet(pnrTimers, nPnr + 1, [pnrInput |-> pnrInput])
    /\ UNCHANGED <<gvars, view, searchFrom, searchTo, trainResults, liveSearchInput,
                   selectedTrain, liveStatus, scheduleInput, scheduleData,
                   coachInput, coachData, alerts, storedAlerts, liveStatusFor,
                   cvars, pnrInput, tvars, svars>>

\* `pnr: pnrInput` in the timer callback: the pnrInput of the render in which
\* handlePnrCheck ran
MutPnrOfCurrentInput(id) == pnrInput

PnrOfTimer(id) == pnrTimers[id].pnrInput

\* the callback of `setTimeout(() => {...}, 600)`
pnrTimerFires ==
    \E id \in DOMAIN pnrTimers :
        /\ pnrData' = PnrInfo(PnrOfTimer(id))
        /\ isLoading' = FALSE
        /\ pnrTimers' = [i \in DOMAIN pnrTimers \ {id} |-> pnrTimers[i]]
        /\ UNCHANGED <<gvars, view, searchFrom, searchTo, trainResults,
                       liveSearchInput, selectedTrain, liveStatus, scheduleInput,
                       scheduleData, coachInput, coachData, alerts, storedAlerts,
                       liveStatusFor, cvars, pnrInput, nPnr, tvars, svars>>

\* the alerts and the theme, over the views
NextLocal ==
    \/ setView \/ alertsSettles
    \/ toggleTheme

SpecLocal == InitLocal /\ [][NextLocal]_vars

\* the PNR view, with the alerts fetch as the other user of isLoading
NextPnr ==
    \/ setView \/ alertsSettles
    \/ setPnrInput \/ handlePnrCheck \/ pnrTimerFires

SpecPnr == Init /\ [][NextPnr]_vars

----------------------------------------------------------------------------
(* App.tsx: the station suggestions of the home form.  A debounce effect   *)
(* runs after every render in which its field's text or open flag has      *)
(* changed: the cleanup of its previous run clears the timer that run set, *)
(* then a new timer is set.  A pending timer fires at any later step.      *)

\* text typed into the two fields
SuggestTexts == { <<"d">>, <<"d", "e">> }

\* the station names listed by a suggestions result
StationsIn(v) == IF v.type = "array" /\ v.n > 0 THEN { <<"D", "e">> } ELSE {}

\* `return () => clearTimeout(timer)`
MutClearNothing(timers, timer) == timers

ClearTimeout(timers, timer) == timers \ { timer }

\* one debounce effect over a render: its dependencies are [text, show]
Debounced(timers, text, show, newText, newShow, edits) ==
    IF <<newText, newShow>> = <<text, show>>
    THEN timers
    ELSE ClearTimeout(timers, Timer(text, show, edits)) \cup
         { Timer(newText, newShow, edits + 1) }

EffectRuns(text, show, newText, newShow, edits) ==
    IF <<newText, newShow>> = <<text, show>> THEN edits ELSE edits + 1

\* the two debounce effects after the render that an event handler caused
DebounceEffects ==
    /\ fromTimers' = Debounced(fromTimers, searchFrom, showFromSuggestions,
                               searchFrom', showFromSuggestions', nEdits.from)
    /\ toTimers' = Debounced(toTimers, searchTo, showToSuggestions,
                             searchTo', showToSuggestions', nEdits.to)
    /\ nEdits' = [from |-> EffectRuns(searchFrom, showFromSuggestions, searchFrom',
                                      showFromSuggestions', nEdits.from),
                  to |-> EffectRuns(searchTo, showToSuggestions, searchTo',
                                    showToSuggestions', nEdits.to)]
    /\ nEdits'.from + nEdits'.to <= MaxEdits
    /\ nEdits' # nEdits

\* what no event of the home form changes
HomeFormFrame ==
    UNCHANGED <<gvars, view, isLoading, trainResults, liveSearchInput,
                selectedTrain, liveStatus, scheduleInput, scheduleData,
                coachInput, coachData, alerts, storedAlerts, liveStatusFor,
                cvars, pvars, tvars, fromSuggestions, toSuggestions, requested>>

\* onFocus of a field: setShowFromSuggestions(true) / setShowToSuggestions(true)
onFocus ==
    /\ view = "home"
    /\ \E field \in { "from", "to" } :
        /\ showFromSuggestions' = (field = "from" \/ showFromSuggestions)
        /\ showToSuggestions' = (field = "to" \/ showToSuggestions)
    /\ UNCHANGED <<searchFrom, searchTo>>
    /\ DebounceEffects
    /\ HomeFormFrame

\* onChange of a field: the text is stored and the field's list is opened
onChange ==
    /\ view = "home"
    /\ \E field \in { "from", "to" }, text \in SuggestTexts \cup { << >> } :
        /\ searchFrom' = IF field = "from" THEN text ELSE searchFrom
        /\ searchTo' = IF field = "to" THEN text ELSE searchTo
        /\ showFromSuggestions' = (field = "from" \/ showFromSuggestions)
        /\ showToSuggestions' = (field = "to" \/ showToSuggestions)
    /\ DebounceEffects
    /\ HomeFormFrame

\* click on an entry of an open suggestion list: the name is stored and the
\* list is closed
pickSuggestion ==
    /\ view = "home"
    /\ \/ /\ showFromSuggestions
          /\ \E name \in StationsIn(fromSuggestions) : searchFrom' = name
          /\ showFromSuggestions' = FALSE
          /\ UNCHANGED <<searchTo, showToSuggestions>>
       \/ /\ showToSuggestions
          /\ \E name \in StationsIn(toSuggestions) : searchTo' = name
          /\ showToSuggestions' = FALSE
          /\ UNCHANGED <<searchFrom, showFromSuggestions>>
    /\ DebounceEffects
    /\ HomeFormFrame

\* the swap button: `const t = searchFrom; setSearchFrom(searchTo); setSearchTo(t)`
swapFields ==
    /\ view = "home"
    /\ searchFrom' = searchTo
    /\ searchTo' = searchFrom
    /\ UNCHANGED <<showFromSuggestions, showToSuggestions>>
    /\ DebounceEffects
    /\ HomeFormFrame

\* handleClickOutside: a mousedown closes the list of each field that does not
\* contain the target
handleClickOutside ==
    /\ view = "home"
    /\ \E target \in { "from", "to", "elsewhere" } :
        /\ showFromSuggestions' = (target = "from" /\ showFromSuggestions)
        /\ showToSuggestions' = (target = "to" /\ showToSuggestions)
    /\ UNCHANGED <<searchFrom, searchTo>>
    /\ DebounceEffects
    /\ HomeFormFrame

\* what the timer callbacks and the answers to their requests leave alone
SuggestFrame ==
    UNCHANGED <<view, isLoading, searchFrom, searchTo, trainResults,
                liveSearchInput, selectedTrain, liveStatus, scheduleInput,
                scheduleData, coachInput, coachData, alerts, storedAlerts,
                liveStatusFor, cvars, pvars, tvars, showFromSuggestions,
                showToSuggestions, nEdits>>

\* `if (searchFrom.length >= 2 && showFromSuggestions)` over the closure of
\* the callback
TimerAsks(timer) == Len(timer.text) >= 2 /\ timer.show

\* the callback of the timer of the `from` effect
fromTimerFires ==
    /\ \E timer \in fromTimers :
        /\ fromTimers' = fromTimers \ { timer }
        /\ IF TimerAsks(timer)
           THEN /\ getStationSuggestionsAI(timer.text, "fromTimer")
                /\ requested' = [ field |-> "from", query |-> timer.text,
                                  timer |-> timer, text |-> searchFrom,
                                  show |-> showFromSuggestions,
                                  edits |-> nEdits.from ]
                /\ fromSuggestions' = IF ReturnedNow THEN last'.ret
                                      ELSE fromSuggestions
           ELSE UNCHANGED <<gvars, requested, fromSuggestions>>
    /\ UNCHANGED <<toTimers, toSuggestions>>
    /\ SuggestFrame

\* the callback of the timer of the `to` effect
toTimerFires ==
    /\ \E timer \in toTimers :
        /\ toTimers' = toTimers \ { timer }
        /\ IF TimerAsks(timer)
           THEN /\ getStationSuggestionsAI(timer.text, "toTimer")
                /\ requested' = [ field |-> "to", query |-> timer.text,
                                  timer |-> timer, text |-> searchTo,
                                  show |-> showToSuggestions,
                                  edits |-> nEdits.to ]
                /\ toSuggestions' = IF ReturnedNow THEN last'.ret
                                    ELSE toSuggestions
           ELSE UNCHANGED <<gvars, requested, toSuggestions>>
    /\ UNCHANGED <<fromTimers, fromSuggestions>>
    /\ SuggestFrame

\* the rest of a timer callback after its await: setFromSuggestions(suggestions)
\* or setToSuggestions(suggestions)
suggestionsSettle ==
    /\ \E id \in Suspended("suggestions"), resp \in Responses :
        /\ getStationSuggestionsAI_resume(id, resp)
        /\ fromSuggestions' = IF calls[id].caller = "fromTimer" THEN last'.ret
                              ELSE fromSuggestions
        /\ toSuggestions' = IF calls[id].caller = "toTimer" THEN last'.ret
                            ELSE toSuggestions
    /\ UNCHANGED <<fromTimers, toTimers, requested>>
    /\ SuggestFrame

NextSuggest ==
    \/ onFocus \/ onChange \/ pickSuggestion \/ swapFields \/ handleClickOutside
    \/ fromTimerFires \/ toTimerFires \/ suggestionsSettle

SpecSuggest == Init /\ [][NextSuggest]_vars

----------------------------------------------------------------------------
(* The assistant: getRailAssistantResponseStream (gemini.ts) and           *)
(* handleSendMessage (App.tsx).  Texts are sequences, so that += and trim  *)
(* are computed; a literal of the source is a one-element sequence.        *)

\* text typed into the assistant's input
BotInputs == { << >>, <<" ">>, <<"h", "i">>, <<" ", "h", "i", " ">> }

\* the text of a streamed chunk; a chunk without text has none
ChunkTexts == { << >>, <<"a">>, <<"b">> }

RECURSIVE trimStart(_)
trimStart(s) ==
    IF s # << >> /\ Head(s) = " " THEN trimStart(Tail(s)) ELSE s

RECURSIVE trimEnd(_)
trimEnd(s) ==
    IF s # << >> /\ s[Len(s)] = " " THEN trimEnd(SubSeq(s, 1, Len(s) - 1)) ELSE s

\* String.prototype.trim
trim(s) == trimEnd(trimStart(s))

\* the callback handleSendMessage passes as onChunk: the text of the last
\* message is replaced when that message is the bot's
MutOnChunkAppends(messages, streamedText) ==
    messages \o << [role |-> "bot", text |-> streamedText] >>

OnChunk(messages, streamedText) ==
    LET lastMsg == messages[Len(messages)]
    IN  IF Len(messages) > 0 /\ lastMsg.role = "bot"
        THEN SubSeq(messages, 1, Len(messages) - 1) \o
             << [role |-> "bot", text |-> streamedText] >>
        ELSE messages

\* `if (!botInput.trim() || isBotTyping) return`
MutSendRejectedTypingOnly == isBotTyping

SendRejected == trim(botInput) = << >> \/ isBotTyping

setBotInput ==
    /\ ~isBotTyping
    /\ \E s \in BotInputs \ { botInput } : botInput' = s
    /\ UNCHANGED <<gvars, avars, xvars, isBotTyping, chatMessages, streams, nSend, streamLast>>

\* the handler up to `await getRailAssistantResponseStream(...)`, which is
\* suspended at `await ai.models.generateContentStream(...)`.  The handler
\* is run in every state, also where the disabled controls would not call it.
handleSendMessage ==
    /\ nSend < MaxSend
    /\ nSend' = nSend + 1
    /\ IF SendRejected
       THEN UNCHANGED <<botInput, isBotTyping, chatMessages, streams>>
       ELSE /\ botInput' = << >>
            /\ chatMessages' = chatMessages \o
                   << [role |-> "user", text |-> botInput],
                      [role |-> "bot", text |-> << >>] >>
            /\ isBotTyping' = TRUE
            /\ streams' = MapSet(streams, nSend + 1,
                   [ query |-> botInput, phase |-> "opening", fullText |-> << >>,
                     chunks |-> << >>, onChunkArgs |-> << >> ])
    /\ UNCHANGED <<gvars, avars, xvars, streamLast>>

\* generateContentStream resolves: the for-await loop starts
streamOpens ==
    \E id \in DOMAIN streams :
        /\ streams[id].phase = "opening"
        /\ streams' = [streams EXCEPT ![id].phase = "streaming"]
        /\ UNCHANGED <<gvars, avars, xvars, botInput, isBotTyping, chatMessages, nSend,
                       streamLast>>

\* `fullText += text`
MutChunkOnly(fullText, text) == text

Accumulated(fullText, text) == fullText \o text

\* one iteration of the loop: `if (text) { fullText += text; onChunk(fullText) }`
streamChunk ==
    \E id \in DOMAIN streams, text \in ChunkTexts :
        LET st == streams[id]
            fullText == Accumulated(st.fullText, text)
        IN  /\ st.phase = "streaming"
            /\ Len(st.chunks) < MaxChunks
            /\ IF text # << >>
               THEN /\ streams' = [streams EXCEPT ![id] =
                          [st EXCEPT !.fullText = fullText,
                                     !.chunks = Append(@, text),
                                     !.onChunkArgs = Append(@, fullText)]]
                    /\ chatMessages' = OnChunk(chatMessages, fullText)
               ELSE /\ streams' = [streams EXCEPT ![id].chunks = Append(@, text)]
                    /\ chatMessages' = chatMessages
            /\ UNCHANGED <<gvars, avars, xvars, botInput, isBotTyping, nSend, streamLast>>

\* what getRailAssistantResponseStream returns from its catch block
MutStreamCatchReturn == Apology

StreamCatchReturn == ErrorText

\* the external call throws, before the first chunk or in mid-stream:
\* `catch (error) { onChunk(apology); return "Error" }`, then the handler's
\* `setIsBotTyping(false)`
streamThrows ==
    \E id \in DOMAIN streams :
        LET st == streams[id]
        IN  /\ streams' = [i \in DOMAIN streams \ {id} |-> streams[i]]
            /\ chatMessages' = OnChunk(chatMessages, Apology)
            /\ streamLast' =
                   [ query |-> st.query, threw |-> TRUE, ret |-> StreamCatchReturn,
                     rejected |-> FALSE, returned |-> TRUE, chunks |-> st.chunks,
                     onChunkArgs |-> Append(st.onChunkArgs, Apology) ]
            /\ isBotTyping' = FALSE
            /\ UNCHANGED <<gvars, avars, xvars, botInput, nSend>>

\* the stream ends: `return fullText`, then `setIsBotTyping(false)`
streamEnds ==
    \E id \in DOMAIN streams :
        LET st == streams[id]
        IN  /\ st.phase = "streaming"
            /\ streams' = [i \in DOMAIN streams \ {id} |-> streams[i]]
            /\ streamLast' =
                   [ query |-> st.query, threw |-> FALSE, ret |-> st.fullText,
                     rejected |-> FALSE, returned |-> TRUE, chunks |-> st.chunks,
                     onChunkArgs |-> st.onChunkArgs ]
            /\ isBotTyping' = FALSE
            /\ UNCHANGED <<gvars, avars, xvars, botInput, chatMessages, nSend>>

NextChat ==
    \/ setBotInput
    \/ handleSendMessage
    \/ streamOpens \/ streamChunk \/ streamThrows \/ streamEnds

SpecChat == Init /\ [][NextChat]_vars

\* C3 (as stated): when the external streaming call throws,
\* getRailAssistantResponseStream returns the apology string to its caller and
\* never rejects.
C3_ThrowReturnsApology ==
    (streamLast.returned /\ streamLast.threw) =>
        (streamLast.ret = Apology /\ ~streamLast.rejected)

\* C3 (amended): when the external streaming call throws, before the first
\* chunk or in mid-stream, getRailAssistantResponseStream hands the apology
\* string to onChunk as its last callback and returns the string "Error" to its
\* caller; it never rejects.
C3_ThrowReturnsErrorAndChunksApology ==
    (streamLast.returned /\ streamLast.threw) =>
        /\ streamLast.ret = ErrorText
        /\ ~streamLast.rejected
        /\ streamLast.onChunkArgs # << >>
        /\ streamLast.onChunkArgs[Len(streamLast.onChunkArgs)] = Apology

\* C3 witness: a stream that threw in mid-stream, after a chunk was delivered
C3_Witness ==
    /\ streamLast.returned
    /\ streamLast.threw
    /\ Len(streamLast.onChunkArgs) >= 2

\* C8: at most one assistant stream is outstanding at any time, and
\* handleSendMessage does nothing (appends no message, starts no external call,
\* leaves botInput unchanged) while isBotTyping is true or the input is blank.
C8_SendGuard ==
    /\ [](Cardinality(DOMAIN streams) <= 1)
    /\ [][(nSend' # nSend /\ (isBotTyping \/ trim(botInput) = << >>)) =>
             UNCHANGED <<chatMessages, streams, botInput, isBotTyping>>]_vars

\* C8 witness: the first invocation started a stream, which is still
\* outstanding, and the second invocation, made while it was, changed nothing
C8_Witness ==
    /\ nSend = 2
    /\ 1 \in DOMAIN streams
    /\ isBotTyping
    /\ Len(chatMessages) = 3

----------------------------------------------------------------------------
(* Progress.  The lookup views and the assistant share no state, so a      *)
(* behaviour of SpecLive uses the lookup views while the assistant is      *)
(* untouched, or the assistant while the lookup views are.  The external   *)
(* model is taken to answer: every awaited call settles, and a stream that *)
(* was opened ends or throws.                                              *)

\* nothing has been done yet in the lookup views, or with the assistant
LookupsUntouched == nInv = 0 /\ view = "home"
AssistantUntouched == nSend = 0 /\ botInput = << >>

NextLive ==
    \/ NextApp /\ AssistantUntouched
    \/ NextChat /\ LookupsUntouched

\* every external call eventually completes (resolves or throws)
ExternalCallsComplete ==
    /\ WF_vars(searchSettles)
    /\ WF_vars(statusSettles)
    /\ WF_vars(scheduleSettles)
    /\ WF_vars(coachSettles)
    /\ WF_vars(alertsSettles)
    /\ WF_vars(streamOpens \/ streamThrows)
    /\ WF_vars(streamEnds \/ streamThrows)

SpecLive == Init /\ [][NextLive]_vars /\ ExternalCallsComplete

\* C23: provided every external call eventually completes (resolves or
\* throws), every lookup handler eventually resets isLoading to false and
\* handleSendMessage eventually resets isBotTyping to false, also when the
\* call fails.
C23_LoadingAndTypingReset ==
    /\ \A id \in 1..MaxInv :
           (id \in DOMAIN calls) ~> (id \notin DOMAIN calls /\ ~isLoading)
    /\ isLoading ~> ~isLoading
    /\ \A id \in 1..MaxSend :
           (id \in DOMAIN streams) ~> (id \notin DOMAIN streams /\ ~isBotTyping)
    /\ isBotTyping ~> ~isBotTyping

\* C23 witness: the external call of a live search threw, and the handler has
\* reset isLoading
C23_Witness ==
    /\ last.caller = "handleLiveSearch"
    /\ last.resp.threw
    /\ calls = EmptyMap
    /\ ~isLoading
    /\ view = "live"

----------------------------------------------------------------------------
(* Properties of the adapter module, checked under Spec.  `last` is the    *)
(* invocation that returned in the step leading to the state, so a         *)
(* predicate on `last` that holds in every reachable state holds of every  *)
(* invocation that returns.                                                *)

\* the safe default of each adapter
DefaultOf(fn) ==
    IF fn \in { "search", "suggestions", "alerts" } THEN JsArray(0) ELSE JsNull

\* the external call of invocation r threw, or answered with a text that is
\* not a JSON document
ExternalFailed(r) ==
    r.ext > 0 /\ (r.resp.threw \/ ~JSONparse(r.resp.text).ok)

\* C1: for each of the five keyed adapters, once a call with a given query has
\* completed successfully, every later call with the identical query returns
\* that stored result and issues no external model call.
C1_RepeatReturnsStoredResult ==
    last.fn \in KeyedAdapters =>
        \A r \in last.after : last.ret = r /\ last.ext = 0

\* C2: when the external call throws or its response text is not valid JSON,
\* searchTrainsAI, getStationSuggestionsAI and getRecentAlertsAI return an empty
\* array and getLiveStatusAI, getTrainScheduleAI and getCoachPositionAI return
\* null; no adapter ever rejects.
C2_FailureYieldsDefault ==
    last.fn \in Adapters =>
        /\ ~last.rejected
        /\ ExternalFailed(last) => last.ret = DefaultOf(last.fn)

\* C2 witness: every adapter has returned after a thrown call and after a
\* text that is not JSON (one adapter per state; here the coach adapter after
\* bad JSON)
C2_Witness ==
    /\ last.fn = "coaches"
    /\ last.ext = 1
    /\ ~last.resp.threw
    /\ last.resp.text = "oops"

\* C4 (as stated): after one successful call of getRecentAlertsAI, a repeated
\* call returns the cached alerts and issues no further external call.
C4_AlertsServedFromCache ==
    (last.fn = "alerts" /\ last.after # {}) =>
        /\ last.ext = 0
        /\ \A r \in last.after : last.ret = r

\* C4 (amended): getRecentAlertsAI checks no cache: every invocation, also one
\* that follows a successful call, issues exactly one external call, and it
\* writes no cache entry.
C4_AlertsAlwaysFetched ==
    last.fn = "alerts" => (last.ext = 1 /\ ~last.hit /\ ~last.wrote)

\* C4 witness: a repeated alerts call, after a successful one, that went to
\* the external model again
C4_Witness ==
    /\ last.fn = "alerts"
    /\ last.after # {}
    /\ last.ext = 1
    /\ Successful(last)

\* C5: one invocation of an adapter issues at most one external call, whether
\* it succeeds or fails, and an invocation served from the cache issues none.
C5_AtMostOneExternalCall ==
    /\ last.ext <= 1
    /\ (last.hit \/ last.present) => last.ext = 0
    /\ \A id \in DOMAIN calls : calls[id].ext = 1 /\ ~calls[id].present

\* C5 witness: an invocation of the schedule adapter that was served from
\* the cache, after the invocation that fetched the entry
C5_Witness ==
    /\ last.fn = "schedules"
    /\ last.hit /\ last.present /\ last.ext = 0
    /\ nInv = 2

\* C6: for any cache and key, at most one invocation ever writes the entry,
\* also when invocations for the same key overlap.
C6_SingleWriterPerEntry ==
    \A fn \in KeyedAdapters : \A k \in DOMAIN fetchedBy[fn] :
        Len(fetchedBy[fn][k]) <= 1

\* C9: a key present in one of the five caches stays present: no step
\* removes a cache entry.
C9_NoEviction ==
    [][\A fn \in KeyedAdapters : DOMAIN cache[fn] \subseteq DOMAIN cache'[fn]]_vars

\* C9 witness: a cache that kept its first entry when a second was written
C9_Witness ==
    \E fn \in KeyedAdapters : Cardinality(DOMAIN cache[fn]) >= 2

\* C10: searchTrainsAI(from, to) returns a cached result only if that result
\* was fetched for the same origin and the same destination, up to letter case.
C10_SearchKeyedByQuery ==
    (last.fn = "search" /\ last.hit) =>
        \A a \in last.servedFor :
            /\ toLowerCase(a[1]) = toLowerCase(last.args[1])
            /\ toLowerCase(a[2]) = toLowerCase(last.args[2])

\* the invocations that resume in a step, and whether a step starts one
ResumedCalls == DOMAIN calls \ DOMAIN calls'
StartsInvocation == nInv' = nInv + 1
\* the invocation started in this step returned without awaiting (last' is
\* that invocation), or was suspended on its external call
StartedReturned == StartsInvocation /\ calls' = calls
StartedSuspended == StartsInvocation /\ (nInv + 1) \in DOMAIN calls'

\* the step starts an invocation of the adapter, and with the arguments, of
\* the invocation that returned last
RepeatsLast ==
    \/ StartedReturned /\ last'.fn = last.fn /\ last'.args = last.args
    \/ StartedSuspended /\ calls'[nInv + 1].fn = last.fn
                        /\ calls'[nInv + 1].args = last.args

\* the response was received and its text is empty
EmptyText(r) == r.ext > 0 /\ ~r.resp.threw /\ r.resp.text = ""

\* the invocation reached its catch block: the external call threw, or
\* JSON.parse threw on `response.text || fallback` (a non-empty text that is
\* not a JSON document; the empty text is replaced by the fallback document)
CallFailed(r) == ExternalFailed(r) /\ ~EmptyText(r)

----------------------------------------------------------------------------
(* Properties of the lookup views, checked under SpecApp *)

\* the suspended adapter invocations that the given handlers started
OutstandingOf(callers) == { id \in DOMAIN calls : calls[id].caller \in callers }

\* whether the view renders a loading indicator: the search view while
\* isLoading, the live view while liveStatus is null, the schedule and the
\* coach view (in the submit button) while isLoading
LoadingIndicator(v) ==
    CASE v = "search" -> isLoading
      [] v = "live" -> selectedTrain # NoTrain /\ ~Truthy(liveStatus)
      [] v = "schedule" -> isLoading
      [] v = "coaches" -> isLoading
      [] OTHER -> FALSE

\* the handlers whose requests belong to a view
HandlersOf(v) ==
    CASE v = "search" -> { "handleSearch" }
      [] v = "live" -> { "handleLiveSearch", "handleTrainClick" }
      [] v = "schedule" -> { "handleScheduleSearch" }
      [] v = "coaches" -> { "handleCoachSearch" }
      [] OTHER -> {}

\* C11: after a lookup fails the view shows a fallback state and no loading
\* indicator: in the search, live, schedule and coach views a loading indicator
\* is displayed only while a request of that view is still outstanding.
C11_LoaderOnlyWhileOutstanding ==
    LoadingIndicator(view) => OutstandingOf(HandlersOf(view)) # {}

\* C19: in the live view, whenever liveStatus is non-null it is the result
\* that was fetched for the currently selected train, for every order in which
\* overlapping live-status requests complete.
C19_LiveStatusOfSelectedTrain ==
    (view = "live" /\ Truthy(liveStatus)) => liveStatusFor = selectedTrain.number

\* C20: isLoading is true whenever a request started by handleSearch,
\* handleLiveSearch, handleTrainClick, handleScheduleSearch, handleCoachSearch,
\* handlePnrCheck or the alerts-view fetch is still outstanding.
C20_LoadingWhileOutstanding ==
    (OutstandingOf(LookupCallers \cup { "alertsEffect" }) # {} \/ pnrTimers # EmptyMap)
        => isLoading

----------------------------------------------------------------------------
(* Properties of the alerts and of the theme, checked under SpecLocal *)

\* an alerts fetch completes in this step (last' is that invocation)
AlertsFetchCompletes == \E id \in ResumedCalls : calls[id].fn = "alerts"

\* a list with at least one element
IsNonEmptyArray(v) == v.type = "array" /\ v.n > 0

\* C12: alerts are persistent: an alerts fetch that fails or yields an empty
\* list leaves the displayed alerts and the copy persisted under
\* 'voyager_alerts_cache' unchanged; they are replaced only by a non-empty
\* fetched list, so alerts that are non-empty never become empty again.
C12_AlertsPersistent ==
    [][/\ (AlertsFetchCompletes /\ ~IsNonEmptyArray(last'.ret)) =>
              UNCHANGED <<alerts, storedAlerts>>
       /\ (alerts' # alerts \/ storedAlerts' # storedAlerts) =>
              /\ AlertsFetchCompletes
              /\ IsNonEmptyArray(last'.ret)
              /\ alerts' = last'.ret
       /\ IsNonEmptyArray(alerts) => IsNonEmptyArray(alerts')]_vars

\* C12 witness: the fetched list replaced the alerts of the earlier session,
\* and the fetch after it failed and left them
C12_Witness ==
    /\ last.fn = "alerts"
    /\ last.resp.threw
    /\ OkResultsOf("alerts", << >>) = { JsArray(1) }
    /\ alerts = JsArray(1)
    /\ storedAlerts = "[1]"

\* C13: in every reachable state the displayed alerts list equals the list
\* persisted in localStorage under 'voyager_alerts_cache', or is empty when
\* nothing has been persisted.
C13_AlertsEqualPersisted ==
    alerts = IF storedAlerts = NoItem THEN JsArray(0)
             ELSE JSONparse(storedAlerts).value

\* C13 witness: a fetched list has been displayed and persisted, and the
\* alerts view has been left
C13_Witness ==
    /\ last.fn = "alerts"
    /\ last.ret = JsArray(1)
    /\ nInv = 1
    /\ storedAlerts = "[1]"
    /\ view # "alerts"

\* C15: toggleTheme switches between 'light' and 'dark', and toggling twice
\* restores the original theme; after every change the persisted 'theme' value
\* equals the current theme and the document carries the 'dark' class exactly
\* when the theme is dark.
C15_ThemeToggle ==
    /\ theme \in { "light", "dark" }
    /\ theme = themeLog[Len(themeLog)]
    /\ \A i \in 1..(Len(themeLog) - 1) : themeLog[i + 1] # themeLog[i]
    /\ \A i \in 1..(Len(themeLog) - 2) : themeLog[i + 2] = themeLog[i]
    /\ storedTheme = theme
    /\ darkClass <=> (theme = "dark")

\* C15 witness: the dark theme of an earlier session, toggled twice
C15_Witness ==
    /\ Len(themeLog) = 3
    /\ themeLog[1] = "dark"
    /\ theme = "dark" /\ darkClass /\ storedTheme = "dark"

----------------------------------------------------------------------------
(* Properties of the PNR view, checked under SpecPnr *)

\* C16: a PNR lookup with an input shorter than 10 characters changes no
\* state and starts no timer; with a 10-digit input pnrData is cleared at once
\* and, after the delay, set to a record whose pnr field equals the input that
\* was submitted, without any external model call.
C16_PnrLookup ==
    [][/\ (nPnr' # nPnr /\ Len(pnrInput) < 10) =>
              UNCHANGED <<gvars, avars, cvars, pnrInput, pnrData, pnrTimers,
                          tvars, svars>>
       /\ (nPnr' # nPnr /\ Len(pnrInput) >= 10) =>
              /\ pnrData' = JsNull
              /\ DOMAIN pnrTimers' = DOMAIN pnrTimers \cup { nPnr' }
              /\ pnrTimers'[nPnr'].pnrInput = pnrInput
              /\ UNCHANGED gvars
       /\ \A id \in DOMAIN pnrTimers \ DOMAIN pnrTimers' :
              /\ pnrData' # JsNull
              /\ pnrData'.pnr = pnrTimers[id].pnrInput
              /\ UNCHANGED gvars]_vars

\* C16 witness: a lookup of 7777777777 whose timer fired after the field was
\* changed to 8888888888, and a lookup with nine digits that did nothing
C16_Witness ==
    /\ nPnr = 2
    /\ pnrTimers = EmptyMap
    /\ pnrData # JsNull
    /\ pnrData.pnr = Rep(10, "7")
    /\ pnrInput = Rep(10, "8")
    /\ nInv = 0

----------------------------------------------------------------------------
(* Properties of the station suggestions, checked under SpecSuggest *)

\* C14: station suggestions are debounced: a suggestion request for a search
\* field is issued only when the field's text has stayed unchanged since the
\* timer was set (the 400 ms interval), has at least 2 characters and the
\* field's suggestion list is open; every change of the text cancels the
\* pending timer, so at most one debounce timer per field is pending at any time.
C14_SuggestionsDebounced ==
    /\ [](/\ Cardinality(fromTimers) <= 1
          /\ Cardinality(toTimers) <= 1
          /\ requested.field # "none" =>
                 /\ requested.timer.edit = requested.edits
                 /\ requested.query = requested.text
                 /\ Len(requested.text) >= 2
                 /\ requested.show)
    /\ [][/\ (searchFrom' # searchFrom) => (fromTimers' \cap fromTimers = {})
          /\ (searchTo' # searchTo) => (toTimers' \cap toTimers = {})]_vars

\* C14 witness: `d` then `de` were typed into the from field, the timer of
\* `d` was cancelled, and the timer of `de` asked for suggestions
C14_Witness ==
    /\ requested.field = "from"
    /\ requested.query = <<"d", "e">>
    /\ requested.edits = 2
    /\ nInv = 1
    /\ fromTimers = {}

----------------------------------------------------------------------------
(* Letter case in the cache keys, checked under Spec *)

\* two argument lists of equal length that differ at most in the case of
\* their letters
SameUpToCase(args, other) ==
    /\ Len(args) = Len(other)
    /\ \A i \in 1..Len(args) : toLowerCase(args[i]) = toLowerCase(other[i])

\* the step starts an invocation of the adapter of the invocation that
\* returned last, with arguments that differ from its arguments in letter
\* case only
RepeatsLastInOtherCase ==
    \/ /\ StartedReturned /\ last'.fn = last.fn
       /\ last'.args # last.args /\ SameUpToCase(last'.args, last.args)
    \/ /\ StartedSuspended /\ calls'[nInv + 1].fn = last.fn
       /\ calls'[nInv + 1].args # last.args
       /\ SameUpToCase(calls'[nInv + 1].args, last.args)

\* C21: cache lookup for searchTrainsAI and getStationSuggestionsAI ignores
\* letter case: a query that differs from a fetched one only in the case of
\* its letters is answered from the cache, without an external call, with the
\* result fetched for the first.
C21_CaseInsensitiveLookup ==
    [][(/\ last.fn \in { "search", "suggestions" }
        /\ last.ext = 1 /\ last.wrote
        /\ RepeatsLastInOtherCase) =>
           /\ StartedReturned
           /\ last'.hit /\ last'.ext = 0
           /\ last'.ret = last.ret]_vars

----------------------------------------------------------------------------
(* Properties of the assistant's stream, checked under SpecChat *)

\* a stream invocation returns in this step from its catch block
StreamFails ==
    /\ DOMAIN streams' # DOMAIN streams
    /\ DOMAIN streams' \subseteq DOMAIN streams
    /\ streamLast'.threw

\* how often a text occurs in a sequence of texts
Occurrences(texts, t) == Cardinality({ i \in 1..Len(texts) : texts[i] = t })

\* C22: after a send whose assistant stream fails, the last chat message is
\* the bot apology text, which replaces any partial answer already streamed
\* into that message; the apology is delivered through onChunk exactly once,
\* as the final callback.
C22_ApologyReplacesAnswer ==
    [][StreamFails =>
          /\ Len(chatMessages') = Len(chatMessages)
          /\ chatMessages'[Len(chatMessages')] = [role |-> "bot", text |-> Apology]
          /\ SubSeq(chatMessages', 1, Len(chatMessages') - 1) =
                 SubSeq(chatMessages, 1, Len(chatMessages) - 1)
          /\ chatMessages[Len(chatMessages)].role = "bot"
          /\ Occurrences(streamLast'.onChunkArgs, Apology) = 1
          /\ streamLast'.onChunkArgs[Len(streamLast'.onChunkArgs)] = Apology]_vars

\* C22 witness: the stream failed after the partial answer `ab` had been
\* streamed into the last message, which now holds the apology
C22_Witness ==
    /\ streamLast.returned /\ streamLast.threw
    /\ streamLast.onChunkArgs = << <<"a">>, <<"a", "b">>, Apology >>
    /\ streams = EmptyMap
    /\ Len(chatMessages) = 3
    /\ chatMessages[3] = [role |-> "bot", text |-> Apology]

\* the concatenation of a sequence of texts
RECURSIVE Concat(_)
Concat(texts) ==
    IF texts = << >> THEN << >> ELSE Head(texts) \o Concat(Tail(texts))

\* the chunks that carry text
IsText(text) == text # << >>
WithText(chunks) == SelectSeq(chunks, IsText)

\* C24: on a successful stream getRailAssistantResponseStream calls onChunk
\* once per non-empty chunk, in order, each time with the concatenation of all
\* chunk texts received so far (each argument strictly extends the previous
\* one), and returns the concatenation of all chunk texts; when no chunk
\* carries text onChunk is never called and the empty string is returned.
C24_OnChunkPerTextChunk ==
    (streamLast.returned /\ ~streamLast.threw) =>
        LET texts == WithText(streamLast.chunks)
            args == streamLast.onChunkArgs
        IN  /\ Len(args) = Len(texts)
            /\ \A i \in 1..Len(args) : args[i] = Concat(SubSeq(texts, 1, i))
            /\ \A i \in 1..(Len(args) - 1) :
                   /\ Len(args[i + 1]) > Len(args[i])
                   /\ SubSeq(args[i + 1], 1, Len(args[i])) = args[i]
            /\ streamLast.ret = Concat(streamLast.chunks)
            /\ ~streamLast.rejected
            /\ (texts = << >>) => (args = << >> /\ streamLast.ret = << >>)

\* C24 witness: a stream of the chunks `a` and `b` that ended: onChunk was
\* called with `a` and with `ab`, and `ab` was returned
C24_Witness ==
    /\ streamLast.returned /\ ~streamLast.threw
    /\ streamLast.chunks = << <<"a">>, <<"b">> >>
    /\ streamLast.onChunkArgs = << <<"a">>, <<"a", "b">> >>
    /\ streamLast.ret = <<"a", "b">>

====
